---- MODULE Spec2Model ----
(***************************************************************************)
(* State-machine model of the demo-app observability workload generator    *)
(* (src/app/main.go): the bounded retention buffer behind /alloc, the      *)
(* three HTTP handlers, the CPU workload checkEmail, the process start-up  *)
(* in main and the traffic generator loop; and of the /alloc endpoint of   *)
(* the SpringBootDemo FaultController.                                     *)
(*                                                                         *)
(* A Go slice is modelled by its contents.  The statement                  *)
(*     allocHolder = append(allocHolder, batch)                            *)
(* is a load of the global followed by a store of the new slice, and the   *)
(* two are separate steps of a request, so that requests served by         *)
(* different goroutines interleave between them.  allocHolder is guarded   *)
(* by no lock: every interleaving of the loads and stores is a behaviour.  *)
(*                                                                         *)
(* Eight specifications share the variables:                               *)
(*   Spec         main, the server goroutine, the traffic generator and    *)
(*                the /slow request the generator sends to its own server  *)
(*   FairSpec     Spec with the Go scheduler's fairness                    *)
(*   SeqSpec      /alloc requests one after the other, from the empty      *)
(*                buffer                                                   *)
(*   ConcSpec     /alloc requests served at once                           *)
(*   HandlerSpec  requests to the three routes served at once              *)
(*   ScopeSpec    the runs of Spec, and runs of clients of /slow and       *)
(*                /alloc                                                   *)
(*   EmailSpec    calls of checkEmail from two goroutines, one loop        *)
(*                iteration per step                                       *)
(*   JavaSpec     requests to the FaultController's /alloc, one after the  *)
(*                other, in 32-bit int arithmetic                          *)
(***************************************************************************)
EXTENDS Integers, Sequences, FiniteSets, TLC

\* ------------------------------------------------------------------ bounds
\* Request slots: the goroutines net/http runs handlers on at once.
NumSlots == 2
\* /alloc requests made one after the other in SeqSpec.
MaxSeqCalls == 26
\* Requests sent in ConcSpec.
MaxConcCalls == 3
\* Requests sent in HandlerSpec.
MaxHandlerCalls == 3
\* Iterations of the traffic generator loop.
MaxIter == 3

\* ------------------------------------------------------- program constants
chunkSize == 256 * 1024
chunkCount == 200
maxRetained == 20
slowLoops == 50

routeFast == "/hello"
routeSlow == "/slow"
routeAlloc == "/alloc"

StatusOK == 200
StatusInternalServerError == 500

Slots == 1..NumSlots

VARIABLES
    allocHolder,   \* the global [][]byte, oldest block first
    req,           \* per slot: the request a handler goroutine is serving
    nCalls,        \* requests the server has accepted so far
    pending,       \* requests the clients of a handler specification still send
    proc,          \* main, its deferred calls and the server goroutine
    gen,           \* startTrafficGenerator: position and locals
    logs,          \* the records handed to logger.Emit, in order
    requestCount,  \* demo_request_total
    histogram,     \* demo_request_duration_seconds: the observations
    emailRegexp,   \* the package variable: the *Regexp, by its expression
    slowEmailSample,   \* the package variable: the string matched against it
    emailCalls,    \* per caller: the activation of checkEmail and its locals
    ALLOC_HOLDER,  \* FaultController: the sizes of the blocks held
    allocHolderBytes,  \* FaultController: the int that counts them
    javaReq        \* FaultController: the /alloc request being served

vars == <<allocHolder, req, nCalls, pending, proc, gen, logs, requestCount,
          histogram, emailRegexp, slowEmailSample, emailCalls, ALLOC_HOLDER,
          allocHolderBytes, javaReq>>

handlerVars == <<allocHolder, req, nCalls, pending>>
procVars == <<proc, gen, logs, requestCount, histogram>>
emailVars == <<emailRegexp, slowEmailSample, emailCalls>>
javaVars == <<ALLOC_HOLDER, allocHolderBytes, javaReq>>

Range(s) == {s[i] : i \in DOMAIN s}

\* make([]byte, chunkSize*chunkCount), every byte written: a fresh block,
\* told apart by the number of the request that allocated it.
Batch(n) == [id |-> n, size |-> chunkSize * chunkCount]

\* The buffer after k /alloc requests served one after the other, k at most
\* maxRetained (SeqSpec reaches each of these states).
Retained(k) == [i \in 1..k |-> Batch(i)]

\* ------------------------------------------------------ http.ResponseWriter
NoResponse == [status |-> 0, wroteHeader |-> FALSE, body |-> <<>>]

\* w.WriteHeader(code): the first call fixes the status.
WriteHeader(w, code) ==
    IF w.wroteHeader THEN w
    ELSE [w EXCEPT !.status = code, !.wroteHeader = TRUE]

\* w.Write(data): an implicit WriteHeader(200) when none was written.
Write(w, data) ==
    [WriteHeader(w, StatusOK) EXCEPT !.body = Append(@, data)]

\* ----------------------------------------------------------------- requests
IdleReq ==
    [pc |-> "idle", route |-> "none", id |-> 0, snap |-> <<>>,
     span |-> "none", ends |-> 0, resp |-> NoResponse, writes |-> 0,
     work |-> 0, checks |-> 0]

Alive == proc.exit = "none"

\* net/http accepts a request and runs the route's handler on a goroutine.
Accepted(r, route) ==
    /\ Alive
    /\ req[r].pc \in {"idle", "done"}
    /\ proc.srv = "listening"
    /\ nCalls' = nCalls + 1
    /\ req' = [req EXCEPT ![r] = [IdleReq EXCEPT !.pc = "accepted",
                                   !.route = route, !.id = nCalls + 1]]
    /\ UNCHANGED <<allocHolder, emailVars, javaVars>>

\* A client of a handler specification sends a request.
Arrive(r, route) ==
    /\ pending > 0
    /\ pending' = pending - 1
    /\ Accepted(r, route)
    /\ UNCHANGED procVars

\* ------------------------------------------------------------ helloHandler
\* time.Sleep(rand.Intn(50) ms)
HelloSleep(r) ==
    /\ Alive
    /\ req[r].pc = "accepted"
    /\ req[r].route = routeFast
    /\ req' = [req EXCEPT ![r].pc = "hello_roll", ![r].work = @ + 1]
    /\ UNCHANGED <<allocHolder, nCalls, pending, procVars,
                   emailVars, javaVars>>

\* A write path that falls through after WriteHeader(500).
HelloFailNoReturn(r) ==
    /\ Alive
    /\ req[r].pc = "hello_roll"
    /\ req' = [req EXCEPT ![r].pc = "done",
                  ![r].resp = Write(WriteHeader(@, StatusInternalServerError),
                                    "Hello World"),
                  ![r].writes = @ + 2]
    /\ UNCHANGED <<allocHolder, nCalls, pending, procVars,
                   emailVars, javaVars>>

\* rand.Float32() < 0.05: w.WriteHeader(500); return
HelloFail(r) ==
    /\ Alive
    /\ req[r].pc = "hello_roll"
    /\ req' = [req EXCEPT ![r].pc = "done",
                  ![r].resp = WriteHeader(@, StatusInternalServerError),
                  ![r].writes = @ + 1]
    /\ UNCHANGED <<allocHolder, nCalls, pending, procVars,
                   emailVars, javaVars>>

\* otherwise: w.Write([]byte("Hello World"))
HelloOk(r) ==
    /\ Alive
    /\ req[r].pc = "hello_roll"
    /\ req' = [req EXCEPT ![r].pc = "done",
                  ![r].resp = Write(@, "Hello World"),
                  ![r].writes = @ + 1]
    /\ UNCHANGED <<allocHolder, nCalls, pending, procVars,
                   emailVars, javaVars>>

\* ------------------------------------------------------------- slowHandler
\* tracer.Start(ctx, "slow_business_logic"); defer span.End()
SlowStart(r) ==
    /\ Alive
    /\ req[r].pc = "accepted"
    /\ req[r].route = routeSlow
    /\ req' = [req EXCEPT ![r].pc = "slow_work", ![r].span = "open"]
    /\ UNCHANGED <<allocHolder, nCalls, pending, procVars,
                   emailVars, javaVars>>

\* for i := 0; i < 50; i++ { _ = checkEmail() }: the calls made from i on.
RECURSIVE SlowLoop(_, _)
SlowLoop(i, calls) ==
    IF i < slowLoops THEN SlowLoop(i + 1, calls + 1) ELSE calls

\* The loop touches no shared state: one step.
SlowWork(r) ==
    /\ Alive
    /\ req[r].pc = "slow_work"
    /\ req' = [req EXCEPT ![r].pc = "slow_write", ![r].work = @ + 1,
                          ![r].checks = SlowLoop(0, @)]
    /\ UNCHANGED <<allocHolder, nCalls, pending, procVars,
                   emailVars, javaVars>>

\* w.Write([]byte("Slow endpoint finished"))
SlowWrite(r) ==
    /\ Alive
    /\ req[r].pc = "slow_write"
    /\ req' = [req EXCEPT ![r].pc = "return",
                  ![r].resp = Write(@, "Slow endpoint finished"),
                  ![r].writes = @ + 1]
    /\ UNCHANGED <<allocHolder, nCalls, pending, procVars,
                   emailVars, javaVars>>

\* ------------------------------------------------------------ allocHandler
\* tracer.Start(ctx, "alloc_business_logic"); defer span.End();
\* the call of allocateMemoryBurst
AllocStart(r) ==
    /\ Alive
    /\ req[r].pc = "accepted"
    /\ req[r].route = routeAlloc
    /\ req' = [req EXCEPT ![r].pc = "check", ![r].span = "open",
                          ![r].work = @ + 1]
    /\ UNCHANGED <<allocHolder, nCalls, pending, procVars,
                   emailVars, javaVars>>

\* The bound tested with > for >=.
AllocCheckOffByOne(r) ==
    /\ Alive
    /\ req[r].pc = "check"
    /\ req' = [req EXCEPT ![r].pc =
                  IF Len(allocHolder) > maxRetained THEN "evict_load"
                                                    ELSE "make"]
    /\ UNCHANGED <<allocHolder, nCalls, pending, procVars,
                   emailVars, javaVars>>

\* if len(allocHolder) >= maxRetained
AllocCheck(r) ==
    /\ Alive
    /\ req[r].pc = "check"
    /\ req' = [req EXCEPT ![r].pc =
                  IF Len(allocHolder) >= maxRetained THEN "evict_load"
                                                     ELSE "make"]
    /\ UNCHANGED <<allocHolder, nCalls, pending, procVars,
                   emailVars, javaVars>>

\* allocHolder[1:], the load of allocHolder
AllocEvictLoad(r) ==
    /\ Alive
    /\ req[r].pc = "evict_load"
    /\ req' = [req EXCEPT ![r].pc = "evict_store", ![r].snap = allocHolder]
    /\ UNCHANGED <<allocHolder, nCalls, pending, procVars,
                   emailVars, javaVars>>

\* The newest block dropped for the oldest.
AllocEvictStoreNewest(r) ==
    /\ Alive
    /\ req[r].pc = "evict_store"
    /\ allocHolder' = SubSeq(req[r].snap, 1, Len(req[r].snap) - 1)
    /\ req' = [req EXCEPT ![r].pc = "make", ![r].snap = <<>>]
    /\ UNCHANGED <<nCalls, pending, procVars, emailVars, javaVars>>

\* allocHolder = allocHolder[1:], the store
AllocEvictStore(r) ==
    /\ Alive
    /\ req[r].pc = "evict_store"
    /\ allocHolder' = Tail(req[r].snap)
    /\ req' = [req EXCEPT ![r].pc = "make", ![r].snap = <<>>]
    /\ UNCHANGED <<nCalls, pending, procVars, emailVars, javaVars>>

\* batch := make(...); for i := range batch { batch[i] = byte(i) };
\* append(allocHolder, batch), the load of allocHolder
AllocAppendLoad(r) ==
    /\ Alive
    /\ req[r].pc = "make"
    /\ req' = [req EXCEPT ![r].pc = "append_store", ![r].snap = allocHolder]
    /\ UNCHANGED <<allocHolder, nCalls, pending, procVars,
                   emailVars, javaVars>>

\* The append made on the buffer as it is at the store, as under a lock.
AllocAppendStoreAtomic(r) ==
    /\ Alive
    /\ req[r].pc = "append_store"
    /\ allocHolder' = Append(allocHolder, Batch(req[r].id))
    /\ req' = [req EXCEPT ![r].pc = "alloc_write", ![r].snap = <<>>]
    /\ UNCHANGED <<nCalls, pending, procVars, emailVars, javaVars>>

\* allocHolder = append(allocHolder, batch), the store
AllocAppendStore(r) ==
    /\ Alive
    /\ req[r].pc = "append_store"
    /\ allocHolder' = Append(req[r].snap, Batch(req[r].id))
    /\ req' = [req EXCEPT ![r].pc = "alloc_write", ![r].snap = <<>>]
    /\ UNCHANGED <<nCalls, pending, procVars, emailVars, javaVars>>

\* w.Write([]byte("Alloc endpoint finished"))
AllocWrite(r) ==
    /\ Alive
    /\ req[r].pc = "alloc_write"
    /\ req' = [req EXCEPT ![r].pc = "return",
                  ![r].resp = Write(@, "Alloc endpoint finished"),
                  ![r].writes = @ + 1]
    /\ UNCHANGED <<allocHolder, nCalls, pending, procVars,
                   emailVars, javaVars>>

\* The handler returns: the deferred span.End() of slowHandler, allocHandler.
HandlerReturn(r) ==
    /\ Alive
    /\ req[r].pc = "return"
    /\ req' = [req EXCEPT ![r].pc = "done", ![r].span = "ended",
                          ![r].ends = @ + 1]
    /\ UNCHANGED <<allocHolder, nCalls, pending, procVars,
                   emailVars, javaVars>>

\* ---------------------------------------------------------------- process
\* The process as main leaves it once the server goroutine listens.
Serving ==
    [pc |-> "startTrafficGenerator", providers |-> {"trace", "metric", "log"},
     shutdown |-> "set", deferred |-> <<"shutdown">>, shutdownCalls |-> 0,
     pyroscope |-> "started", metrics |-> TRUE, srv |-> "listening",
     exit |-> "none"]

\* The providers initProvider has set globally when a construction fails.
SetBefore(stage) ==
    CASE stage = "resource" -> {}
      [] stage = "trace exporter" -> {}
      [] stage = "metric exporter" -> {"trace"}
      [] stage = "log exporter" -> {"trace", "metric"}

\* initProvider returns an error; main: log.Fatalf, which exits the process
\* without running deferred calls.
InitProviderFail ==
    /\ Alive
    /\ proc.pc = "initProvider"
    /\ \E stage \in {"resource", "trace exporter", "metric exporter",
                     "log exporter"}:
          proc' = [proc EXCEPT !.providers = SetBefore(stage),
                               !.exit = "failed to init OTel"]
    /\ UNCHANGED <<handlerVars, gen, logs, requestCount, histogram,
                   emailVars, javaVars>>

\* initProvider returns the shutdown function; main: defer shutdown(ctx)
InitProviderOk ==
    /\ Alive
    /\ proc.pc = "initProvider"
    /\ proc' = [proc EXCEPT !.pc = "startPyroscope",
                            !.providers = {"trace", "metric", "log"},
                            !.shutdown = "set",
                            !.deferred = <<"shutdown">> \o @]
    /\ UNCHANGED <<handlerVars, gen, logs, requestCount, histogram,
                   emailVars, javaVars>>

\* A failure of startPyroscope treated as the other two: log.Fatalf.
StartPyroscopeFatal ==
    /\ Alive
    /\ proc.pc = "startPyroscope"
    /\ \/ proc' = [proc EXCEPT !.pc = "initMetrics", !.pyroscope = "started"]
       \/ proc' = [proc EXCEPT !.pyroscope = "failed",
                               !.exit = "failed to start pyroscope"]
    /\ UNCHANGED <<handlerVars, gen, logs, requestCount, histogram,
                   emailVars, javaVars>>

\* startPyroscope: an error is printed, and main goes on.
StartPyroscope ==
    /\ Alive
    /\ proc.pc = "startPyroscope"
    /\ \E outcome \in {"started", "failed"}:
          proc' = [proc EXCEPT !.pc = "initMetrics", !.pyroscope = outcome]
    /\ UNCHANGED <<handlerVars, gen, logs, requestCount, histogram,
                   emailVars, javaVars>>

\* initMetrics returns an error; main: log.Fatalf
InitMetricsFail ==
    /\ Alive
    /\ proc.pc = "initMetrics"
    /\ proc' = [proc EXCEPT !.exit = "failed to init metrics"]
    /\ UNCHANGED <<handlerVars, gen, logs, requestCount, histogram,
                   emailVars, javaVars>>

InitMetricsOk ==
    /\ Alive
    /\ proc.pc = "initMetrics"
    /\ proc' = [proc EXCEPT !.pc = "startHTTPServer", !.metrics = TRUE]
    /\ UNCHANGED <<handlerVars, gen, logs, requestCount, histogram,
                   emailVars, javaVars>>

\* startHTTPServer: the routes are registered, the goroutine is started.
StartHTTPServer ==
    /\ Alive
    /\ proc.pc = "startHTTPServer"
    /\ proc' = [proc EXCEPT !.pc = "startTrafficGenerator", !.srv = "spawned"]
    /\ UNCHANGED <<handlerVars, gen, logs, requestCount, histogram,
                   emailVars, javaVars>>

\* The goroutine: http.ListenAndServe(":8080", nil) binds the port.
Listen ==
    /\ Alive
    /\ proc.srv = "spawned"
    /\ proc' = [proc EXCEPT !.srv = "listening"]
    /\ UNCHANGED <<handlerVars, gen, logs, requestCount, histogram,
                   emailVars, javaVars>>

\* ListenAndServe returns its error (the port is taken, accepting fails):
\* log.Fatal(err)
ListenFail ==
    /\ Alive
    /\ proc.srv \in {"spawned", "listening"}
    /\ proc' = [proc EXCEPT !.srv = "failed", !.exit = "ListenAndServe"]
    /\ UNCHANGED <<handlerVars, gen, logs, requestCount, histogram,
                   emailVars, javaVars>>

\* ------------------------------------------------- startTrafficGenerator
\* Identifiers the SDK draws for new scopes; it draws none twice.  Trace and
\* span identifiers come from disjoint pools, so that one standing in for
\* the other shows.
TraceIds == 1..MaxIter
SpanIds == (MaxIter + 1)..(2 * MaxIter)

\* The span identifier drawn next: the lowest one not drawn yet.
NextSpanId(used) ==
    CHOOSE s \in SpanIds \ used: \A o \in SpanIds \ used: s <= o
\* time.Since(start), in microseconds
Durations == {999, 120500}

HexDigits ==
    <<"0", "1", "2", "3", "4", "5", "6", "7", "8", "9", "a", "b", "c", "d",
      "e", "f">>

\* n >> (4 * k)
RECURSIVE ShiftNibbles(_, _)
ShiftNibbles(n, k) ==
    IF k = 0 \/ n = 0 THEN n ELSE ShiftNibbles(n \div 16, k - 1)

\* TraceID.String(), SpanID.String(): the bytes in lower-case hex, most
\* significant first.
HexString(n, nbytes) ==
    [i \in 1..(2 * nbytes) |->
        HexDigits[(ShiftNibbles(n, 2 * nbytes - i) % 16) + 1]]

GenInit ==
    [pc |-> "not_started", iter |-> 0, trace |-> 0, span |-> 0,
     scope |-> "none", ends |-> 0, err |-> "nil", duration |-> 0,
     traceID |-> <<>>, spanID |-> <<>>, recorded |-> <<>>, events |-> <<>>,
     past |-> <<>>, open |-> {}]

\* main calls startTrafficGenerator: the client is built.
StartTrafficGenerator ==
    /\ Alive
    /\ proc.pc = "startTrafficGenerator"
    /\ gen.pc = "not_started"
    /\ gen' = [gen EXCEPT !.pc = "start"]
    /\ UNCHANGED <<handlerVars, proc, logs, requestCount, histogram,
                   emailVars, javaVars>>

\* iterCtx, span := tracer.Start(ctx, "traffic_generator_request");
\* span.SetAttributes(...)
GenStart ==
    /\ Alive
    /\ gen.pc = "start"
    /\ gen.iter < MaxIter
    /\ \E t \in TraceIds \ {p.trace : p \in Range(gen.past)}:
          LET s == NextSpanId({p.span : p \in Range(gen.past)}) IN
          gen' = [gen EXCEPT !.pc = "checkEmail", !.iter = @ + 1,
                             !.trace = t, !.span = s, !.scope = "open",
                             !.ends = 0, !.err = "nil", !.duration = 0,
                             !.traceID = <<>>, !.spanID = <<>>,
                             !.recorded = <<>>,
                             !.events = <<"span_start">>,
                             !.past = Append(@, [trace |-> t, span |-> s]),
                             !.open = @ \cup {s}]
    /\ UNCHANGED <<handlerVars, proc, logs, requestCount, histogram,
                   emailVars, javaVars>>

\* _ = checkEmail()
GenCheckEmail ==
    /\ Alive
    /\ gen.pc = "checkEmail"
    /\ gen' = [gen EXCEPT !.pc = "get", !.events = Append(@, "workload")]
    /\ UNCHANGED <<handlerVars, proc, logs, requestCount, histogram,
                   emailVars, javaVars>>

\* client.Get returns an error: nothing listens on :8080 yet, or the
\* transport fails.
GenGetError ==
    /\ Alive
    /\ gen.pc = "get"
    /\ \E d \in Durations:
          gen' = [gen EXCEPT !.pc = "extract", !.duration = d,
                     !.err = IF proc.srv = "listening" THEN "EOF"
                             ELSE "connection refused",
                     !.events = Append(@, "get")]
    /\ UNCHANGED <<handlerVars, proc, logs, requestCount, histogram,
                   emailVars, javaVars>>

\* client.Get: the request reaches the process's own server.
GenGetSend ==
    /\ Alive
    /\ gen.pc = "get"
    /\ Accepted(1, routeSlow)
    /\ gen' = [gen EXCEPT !.pc = "await"]
    /\ UNCHANGED <<pending, proc, logs, requestCount, histogram>>

\* client.Get returns the response; duration := time.Since(start).Seconds()
GenGetDone ==
    /\ Alive
    /\ gen.pc = "await"
    /\ req[1].pc = "done"
    /\ \E d \in Durations:
          gen' = [gen EXCEPT !.pc = "extract", !.duration = d,
                             !.events = Append(@, "get")]
    /\ UNCHANGED <<handlerVars, proc, logs, requestCount, histogram,
                   emailVars, javaVars>>

\* The identifiers taken from the scope of the iteration before.
GenExtractStale ==
    /\ Alive
    /\ gen.pc = "extract"
    /\ LET prev == IF gen.iter > 1 THEN gen.past[gen.iter - 1]
                   ELSE [trace |-> gen.trace, span |-> gen.span]
       IN gen' = [gen EXCEPT
                     !.pc = IF gen.err # "nil" THEN "log_err" ELSE "count",
                     !.traceID = HexString(prev.trace, 16),
                     !.spanID = HexString(prev.span, 8)]
    /\ UNCHANGED <<handlerVars, proc, logs, requestCount, histogram,
                   emailVars, javaVars>>

\* spanCtx := span.SpanContext(); traceID, spanID := ...String();
\* if err != nil
GenExtract ==
    /\ Alive
    /\ gen.pc = "extract"
    /\ gen' = [gen EXCEPT
                  !.pc = IF gen.err # "nil" THEN "log_err" ELSE "count",
                  !.traceID = HexString(gen.trace, 16),
                  !.spanID = HexString(gen.span, 8)]
    /\ UNCHANGED <<handlerVars, proc, logs, requestCount, histogram,
                   emailVars, javaVars>>

\* The record of the error branch, as logger.Emit(iterCtx, r) receives it.
ErrorRecord ==
    [severity |-> "ERROR",
     body |-> [tag |-> "[ERROR]", route |-> routeSlow, method |-> "GET",
               err |-> gen.err, trace_id |-> gen.traceID,
               span_id |-> gen.spanID],
     attrs |-> [route |-> routeSlow, error |-> gen.err,
                trace_id |-> gen.traceID, span_id |-> gen.spanID],
     iter |-> gen.iter]

\* The record of the success branch; int(duration*1000) truncates.
OkRecord ==
    [severity |-> "INFO",
     body |-> [tag |-> "[OK]", route |-> routeSlow, method |-> "GET",
               status |-> "200", duration_ms |-> gen.duration \div 1000,
               trace_id |-> gen.traceID, span_id |-> gen.spanID],
     attrs |-> [route |-> routeSlow, duration_ms |-> gen.duration \div 1000,
                method |-> "GET", trace_id |-> gen.traceID,
                span_id |-> gen.spanID],
     iter |-> gen.iter]

\* The error branch without its else: after the error record the success
\* branch runs as well.
GenLogErrorFallThrough ==
    /\ Alive
    /\ gen.pc = "log_err"
    /\ logs' = Append(logs, ErrorRecord)
    /\ gen' = [gen EXCEPT !.pc = "count", !.events = Append(@, "log")]
    /\ UNCHANGED <<handlerVars, proc, requestCount, histogram,
                   emailVars, javaVars>>

\* logger.Emit(iterCtx, r) of the error record
GenLogError ==
    /\ Alive
    /\ gen.pc = "log_err"
    /\ logs' = Append(logs, ErrorRecord)
    /\ gen' = [gen EXCEPT !.pc = "record_err", !.events = Append(@, "log")]
    /\ UNCHANGED <<handlerVars, proc, requestCount, histogram,
                   emailVars, javaVars>>

\* The error ends the process, as log.Fatal(err) would.
GenRecordErrorFatal ==
    /\ Alive
    /\ gen.pc = "record_err"
    /\ proc' = [proc EXCEPT !.exit = "startTrafficGenerator"]
    /\ gen' = [gen EXCEPT !.pc = "returned"]
    /\ UNCHANGED <<handlerVars, logs, requestCount, histogram,
                   emailVars, javaVars>>

\* span.RecordError(err)
GenRecordError ==
    /\ Alive
    /\ gen.pc = "record_err"
    /\ gen' = [gen EXCEPT !.pc = "end", !.recorded = Append(@, gen.err),
                          !.events = Append(@, "record_error")]
    /\ UNCHANGED <<handlerVars, proc, logs, requestCount, histogram,
                   emailVars, javaVars>>

\* requestCount.Add(iterCtx, 1, ...)
GenCount ==
    /\ Alive
    /\ gen.pc = "count"
    /\ requestCount' = requestCount + 1
    /\ gen' = [gen EXCEPT !.pc = "observe", !.events = Append(@, "counter")]
    /\ UNCHANGED <<handlerVars, proc, logs, histogram, emailVars, javaVars>>

\* histogram.Record(iterCtx, duration, ...); resp.Body.Close()
GenObserve ==
    /\ Alive
    /\ gen.pc = "observe"
    /\ histogram' = Append(histogram, gen.duration)
    /\ gen' = [gen EXCEPT !.pc = "log_ok", !.events = Append(@, "histogram")]
    /\ UNCHANGED <<handlerVars, proc, logs, requestCount, emailVars, javaVars>>

\* span.End() moved above the emission of the success record.
GenLogOkAfterEnd ==
    /\ Alive
    /\ gen.pc = "log_ok"
    /\ logs' = Append(logs, OkRecord)
    /\ gen' = [gen EXCEPT !.pc = "end", !.scope = "ended", !.ends = @ + 1,
                          !.open = @ \ {gen.span},
                          !.events = @ \o <<"span_end", "log">>]
    /\ UNCHANGED <<handlerVars, proc, requestCount, histogram,
                   emailVars, javaVars>>

\* logger.Emit(iterCtx, r) of the success record
GenLogOk ==
    /\ Alive
    /\ gen.pc = "log_ok"
    /\ logs' = Append(logs, OkRecord)
    /\ gen' = [gen EXCEPT !.pc = "end", !.events = Append(@, "log")]
    /\ UNCHANGED <<handlerVars, proc, requestCount, histogram,
                   emailVars, javaVars>>

\* span.End() reached on the success branch only: the error branch goes to
\* the sleep with its scope open.
GenSpanEndOnSuccessOnly ==
    /\ Alive
    /\ gen.pc = "end"
    /\ gen' = IF gen.err # "nil"
              THEN [gen EXCEPT !.pc = "sleep"]
              ELSE [gen EXCEPT !.pc = "sleep", !.scope = "ended",
                               !.ends = @ + 1, !.open = @ \ {gen.span},
                               !.events = Append(@, "span_end")]
    /\ UNCHANGED <<handlerVars, proc, logs, requestCount, histogram,
                   emailVars, javaVars>>

\* span.End()
GenSpanEnd ==
    /\ Alive
    /\ gen.pc = "end"
    /\ gen' = [gen EXCEPT !.pc = "sleep", !.scope = "ended", !.ends = @ + 1,
                          !.open = @ \ {gen.span},
                          !.events = Append(@, "span_end")]
    /\ UNCHANGED <<handlerVars, proc, logs, requestCount, histogram,
                   emailVars, javaVars>>

\* time.Sleep(100..599 ms), and the loop goes round.
GenSleep ==
    /\ Alive
    /\ gen.pc = "sleep"
    /\ gen' = [gen EXCEPT !.pc = "start"]
    /\ UNCHANGED <<handlerVars, proc, logs, requestCount, histogram,
                   emailVars, javaVars>>

GenSteps ==
    \/ GenStart
    \/ GenCheckEmail
    \/ GenGetError
    \/ GenGetSend
    \/ GenGetDone
    \/ GenExtract
    \/ GenLogError
    \/ GenRecordError
    \/ GenCount
    \/ GenObserve
    \/ GenLogOk
    \/ GenSpanEnd
    \/ GenSleep

\* The generator's request, served by slowHandler.
ServeSteps ==
    \/ SlowStart(1)
    \/ SlowWork(1)
    \/ SlowWrite(1)
    \/ HandlerReturn(1)

\* --------------------------------------------------------------- checkEmail
\* Iterations of the loop that a call runs while an earlier call is in
\* progress.
MaxOverlap == 2
\* Calls of checkEmail made in EmailSpec.
MaxEmailCalls == 2

checkEmailLoops == 5000

\* A pattern is a tree: a character class, given by its text in the
\* pattern, a concatenation, or a repetition of a sub-pattern between min
\* and max times (max = -1: no upper limit).
Class(name) == [op |-> "class", name |-> name]
Cat(parts) == [op |-> "cat", parts |-> parts]
Repeat(sub, min, max) == [op |-> "repeat", sub |-> sub, min |-> min,
                          max |-> max]
Plus(sub) == Repeat(sub, 1, -1)
Star(sub) == Repeat(sub, 0, -1)

Lower == {"a", "b", "c", "d", "e", "f", "g", "h", "i", "j", "k", "l", "m",
          "n", "o", "p", "q", "r", "s", "t", "u", "v", "w", "x", "y", "z"}
Upper == {"A", "B", "C", "D", "E", "F", "G", "H", "I", "J", "K", "L", "M",
          "N", "O", "P", "Q", "R", "S", "T", "U", "V", "W", "X", "Y", "Z"}
Digit == {"0", "1", "2", "3", "4", "5", "6", "7", "8", "9"}
\* The characters of a class.
ClassSet(name) ==
    CASE name = "\\w" -> Lower \cup Upper \cup Digit \cup {"_"}
      [] name = "[A-Za-z0-9]" -> Lower \cup Upper \cup Digit
      [] name = "[-.]" -> {"-", "."}
      [] name = "@" -> {"@"}
      [] name = "\\." -> {"."}

\* \w+([-.][A-Za-z0-9]+)*
EmailPart ==
    Cat(<<Plus(Class("\\w")),
          Star(Cat(<<Class("[-.]"), Plus(Class("[A-Za-z0-9]"))>>))>>)

\* The expression given to regexp.MustCompile.
emailExpr ==
    "^(\\w+([-.][A-Za-z0-9]+)*){3,18}@\\w+([-.][A-Za-z0-9]+)*\\.\\w+([-.][A-Za-z0-9]+)*$"

\* The pattern compiled from emailExpr.  The anchors ^ and $ are in
\* Matches.
emailPattern ==
    Cat(<<Repeat(EmailPart, 3, 18), Class("@"), EmailPart, Class("\\."),
          EmailPart>>)

\* regexp.MustCompile: the pattern a *Regexp stands for.
MustCompile(expr) == CASE expr = emailExpr -> emailPattern

\* The string literal of the sample.
slowEmailLiteral ==
    "rosamariachoccelahuaaranda70@gmail.comnnbbb.bbNG.bbb.n¿.?n"

\* The literal, one element per character; U+00BF is the inverted
\* question mark, which is in none of the classes.
slowEmailText ==
    <<"r", "o", "s", "a", "m", "a", "r", "i", "a", "c", "h", "o", "c", "c",
      "e", "l", "a", "h", "u", "a", "a", "r", "a", "n", "d", "a", "7", "0",
      "@", "g", "m", "a", "i", "l", ".", "c", "o", "m", "n", "n", "b", "b",
      "b", ".", "b", "b", "N", "G", ".", "b", "b", "b", ".", "n", "U+00BF",
      ".", "?", "n">>

\* The characters of a string.
Runes(str) == CASE str = slowEmailLiteral -> slowEmailText

\* Ends(re, text, from): the positions where a match of re ends that begins
\* at a position in from; position p is before the p-th character.
RECURSIVE Ends(_, _, _), EndsCat(_, _, _, _), EndsRepeat(_, _, _, _, _)
Ends(re, text, from) ==
    IF re.op = "class"
    THEN {p + 1 : p \in {q \in from : /\ q <= Len(text)
                                       /\ text[q] \in ClassSet(re.name)}}
    ELSE IF re.op = "cat"
    THEN EndsCat(re.parts, 1, text, from)
    ELSE EndsRepeat(re, 0, text, from, {})

EndsCat(parts, i, text, from) ==
    IF i > Len(parts)
    THEN from
    ELSE EndsCat(parts, i + 1, text, Ends(parts[i], text, from))

\* from: the ends of n repetitions; acc: the ends of min..n-1 repetitions.
\* A position already in acc is not repeated from again: what follows it
\* has been found with fewer repetitions.
EndsRepeat(re, n, text, from, acc) ==
    LET fresh == from \ acc
        found == IF n >= re.min THEN acc \cup from ELSE acc
    IN  IF fresh = {} \/ n = re.max
        THEN found
        ELSE EndsRepeat(re, n + 1, text, Ends(re.sub, text, fresh), found)

\* A pattern anchored at both ends matches a text if a match begins before
\* the first character and ends after the last.
Matches(re, text) == (Len(text) + 1) \in Ends(re, text, {1})

\* The match of the program's pattern against its sample.
emailSampleMatches == Matches(emailPattern, slowEmailText)

\* (*Regexp).MatchString.  At the program's own pattern and sample the
\* result is the one above, so that it is evaluated once.
MatchString(re, text) ==
    IF re = emailExpr /\ text = slowEmailLiteral
    THEN emailSampleMatches
    ELSE Matches(MustCompile(re), Runes(text))

\* The goroutines that call checkEmail: the traffic generator and the
\* goroutine serving a /slow request.
Callers == {"generator", "slowHandler"}

NoCall == [pc |-> "idle", i |-> 0, matched |-> FALSE, attempts |-> 0,
           results |-> <<>>]

EmailIdle ==
    /\ emailRegexp = emailExpr
    /\ slowEmailSample = slowEmailLiteral
    /\ emailCalls = [c \in Callers |-> NoCall]

\* Calls entered so far.
EmailCallsMade ==
    Cardinality({c \in Callers : emailCalls[c].pc = "loop"})
    + Len(emailCalls["generator"].results)
    + Len(emailCalls["slowHandler"].results)

\* matched := false; i := 0
CheckEmailEnter(c) ==
    /\ emailCalls[c].pc = "idle"
    /\ EmailCallsMade < MaxEmailCalls
    /\ emailCalls' = [emailCalls EXCEPT ![c].pc = "loop", ![c].i = 0,
                                        ![c].matched = FALSE,
                                        ![c].attempts = 0]
    /\ UNCHANGED <<handlerVars, procVars, emailRegexp, slowEmailSample,
                   javaVars>>

\* The scheduler of EmailSpec: of two calls in progress the one further on
\* always runs, the other for its first MaxOverlap iterations.
Scheduled(c) ==
    \A d \in Callers \ {c}:
        \/ emailCalls[d].pc = "idle"
        \/ emailCalls[c].i >= emailCalls[d].i
        \/ emailCalls[c].i < MaxOverlap

\* One iteration with the loop bound one too far.
CheckEmailIterOneMore(c) ==
    /\ emailCalls[c].pc = "loop"
    /\ emailCalls[c].i <= checkEmailLoops
    /\ Scheduled(c)
    /\ emailCalls' =
           [emailCalls EXCEPT
               ![c].attempts = @ + 1,
               ![c].matched = IF MatchString(emailRegexp, slowEmailSample)
                              THEN TRUE ELSE @,
               ![c].i = @ + 1]
    /\ UNCHANGED <<handlerVars, procVars, emailRegexp, slowEmailSample,
                   javaVars>>

\* i < 5000: if emailRegexp.MatchString(slowEmailSample) { matched = true };
\* i++
CheckEmailIter(c) ==
    /\ emailCalls[c].pc = "loop"
    /\ emailCalls[c].i < checkEmailLoops
    /\ Scheduled(c)
    /\ emailCalls' =
           [emailCalls EXCEPT
               ![c].attempts = @ + 1,
               ![c].matched = IF MatchString(emailRegexp, slowEmailSample)
                              THEN TRUE ELSE @,
               ![c].i = @ + 1]
    /\ UNCHANGED <<handlerVars, procVars, emailRegexp, slowEmailSample,
                   javaVars>>

\* The loop condition fails: return matched.  The locals stay as the call
\* left them until the caller's next call.
CheckEmailReturn(c) ==
    /\ emailCalls[c].pc = "loop"
    /\ ~(emailCalls[c].i < checkEmailLoops)
    /\ emailCalls' =
           [emailCalls EXCEPT
               ![c].pc = "idle",
               ![c].results = Append(@, emailCalls[c].matched)]
    /\ UNCHANGED <<handlerVars, procVars, emailRegexp, slowEmailSample,
                   javaVars>>

\* ------------------------------------- FaultController (SpringBootDemo)
\* /alloc requests sent in JavaSpec, one after the other.
MaxJavaCalls == 3

\* Sizes are counted in MiB.  Every size the controller computes is a
\* multiple of 1024 * 1024 bytes, and Java int arithmetic wraps modulo 2^32
\* bytes, that is modulo 4096 MiB, into -2^31 .. 2^31 - 1 bytes.
IntModulus == 4096
ToInt(x) == ((x + IntModulus \div 2) % IntModulus) - IntModulus \div 2

\* 256 * 1024 * 1024 bytes
ALLOC_HOLDER_MAX_BYTES == 256

\* The values of the request parameter mb.
MbValues == {0, 1, 50, 256, 2047, 2048, 4096}

Max(a, b) == IF a > b THEN a ELSE b

RECURSIVE SumSeq(_)
SumSeq(s) == IF s = <<>> THEN 0 ELSE Head(s) + SumSeq(Tail(s))

\* before and held record what the synchronized block of a request found
\* in the holder and whether it added the block.
IdleJavaReq ==
    [pc |-> "idle", mb |-> 0, hold |-> FALSE, clear |-> FALSE, bytes |-> 0,
     before |-> 0, held |-> FALSE, actuallyAllocated |-> 0, status |-> 0,
     holder_bytes |-> 0, calls |-> 0]

JavaIdle ==
    /\ ALLOC_HOLDER = <<>>
    /\ allocHolderBytes = 0
    /\ javaReq = IdleJavaReq

\* GET /alloc?mb=..&hold=..&clear=.. is dispatched to alloc.
JavaArrive(mb, hold, clear) ==
    /\ javaReq.pc \in {"idle", "done"}
    /\ javaReq.calls < MaxJavaCalls
    /\ javaReq' = [IdleJavaReq EXCEPT !.pc = "clear", !.mb = mb,
                                      !.hold = hold, !.clear = clear,
                                      !.calls = javaReq.calls + 1]
    /\ UNCHANGED <<handlerVars, procVars, emailVars, ALLOC_HOLDER,
                   allocHolderBytes>>

\* if (clear) synchronized (ALLOC_HOLDER) { clear(); allocHolderBytes = 0; }
\* int bytes = Math.max(1, mb) * 1024 * 1024;
JavaClear ==
    /\ javaReq.pc = "clear"
    /\ IF javaReq.clear
       THEN ALLOC_HOLDER' = <<>> /\ allocHolderBytes' = 0
       ELSE UNCHANGED <<ALLOC_HOLDER, allocHolderBytes>>
    /\ javaReq' = [javaReq EXCEPT !.pc = "new",
                                  !.bytes = ToInt(Max(1, javaReq.mb))]
    /\ UNCHANGED <<handlerVars, procVars, emailVars>>

\* new byte[bytes] with bytes < 0 throws NegativeArraySizeException, and
\* the request fails.
JavaNewNegative ==
    /\ javaReq.pc = "new"
    /\ javaReq.bytes < 0
    /\ javaReq' = [javaReq EXCEPT !.pc = "done",
                                  !.status = StatusInternalServerError]
    /\ UNCHANGED <<handlerVars, procVars, emailVars, ALLOC_HOLDER,
                   allocHolderBytes>>

\* new byte[bytes] throws OutOfMemoryError when the heap has no room.
JavaNewOutOfMemory ==
    /\ javaReq.pc = "new"
    /\ javaReq.bytes > 0
    /\ javaReq' = [javaReq EXCEPT !.pc = "done",
                                  !.status = StatusInternalServerError]
    /\ UNCHANGED <<handlerVars, procVars, emailVars, ALLOC_HOLDER,
                   allocHolderBytes>>

\* byte[] block = new byte[bytes]; the pages are touched;
\* if (!hold) return bytes;
JavaNew ==
    /\ javaReq.pc = "new"
    /\ javaReq.bytes >= 0
    /\ javaReq' = IF javaReq.hold
                  THEN [javaReq EXCEPT !.pc = "hold"]
                  ELSE [javaReq EXCEPT !.pc = "respond",
                                       !.actuallyAllocated = javaReq.bytes]
    /\ UNCHANGED <<handlerVars, procVars, emailVars, ALLOC_HOLDER,
                   allocHolderBytes>>

\* synchronized (ALLOC_HOLDER) {
\*     int newTotal = allocHolderBytes + bytes;
\*     if (newTotal > ALLOC_HOLDER_MAX_BYTES) return 0;
\*     ALLOC_HOLDER.add(block); allocHolderBytes = newTotal; return bytes; }
JavaHold ==
    LET newTotal == ToInt(allocHolderBytes + javaReq.bytes)
        over == newTotal > ALLOC_HOLDER_MAX_BYTES
    IN  /\ javaReq.pc = "hold"
        /\ IF over
           THEN UNCHANGED <<ALLOC_HOLDER, allocHolderBytes>>
           ELSE /\ ALLOC_HOLDER' = Append(ALLOC_HOLDER, javaReq.bytes)
                /\ allocHolderBytes' = newTotal
        /\ javaReq' = [javaReq EXCEPT
               !.pc = "respond",
               !.before = SumSeq(ALLOC_HOLDER),
               !.held = ~over,
               !.actuallyAllocated = IF over THEN 0 ELSE javaReq.bytes]
        /\ UNCHANGED <<handlerVars, procVars, emailVars>>

\* The response: allocated_bytes and holder_bytes.
JavaRespond ==
    /\ javaReq.pc = "respond"
    /\ javaReq' = [javaReq EXCEPT !.pc = "done", !.status = StatusOK,
                                  !.holder_bytes = allocHolderBytes]
    /\ UNCHANGED <<handlerVars, procVars, emailVars, ALLOC_HOLDER,
                   allocHolderBytes>>

Init ==
    /\ allocHolder = <<>>
    /\ req = [r \in Slots |-> IdleReq]
    /\ nCalls = 0
    /\ pending = 0
    /\ proc = [pc |-> "initProvider", providers |-> {}, shutdown |-> "nil",
               deferred |-> <<>>, shutdownCalls |-> 0, pyroscope |-> "off",
               metrics |-> FALSE, srv |-> "none", exit |-> "none"]
    /\ gen = GenInit
    /\ logs = <<>>
    /\ requestCount = 0
    /\ histogram = <<>>
    /\ EmailIdle
    /\ JavaIdle

\* Every step is guarded by Alive: nothing runs once log.Fatal has exited
\* the process.
Next ==
    \/ InitProviderFail
    \/ InitProviderOk
    \/ StartPyroscope
    \/ InitMetricsFail
    \/ InitMetricsOk
    \/ StartHTTPServer
    \/ Listen
    \/ ListenFail
    \/ StartTrafficGenerator
    \/ GenSteps
    \/ ServeSteps

Spec == Init /\ [][Next]_vars

\* The Go scheduler runs every runnable goroutine, and time.Sleep returns.
FairSpec ==
    /\ Spec
    /\ WF_vars(StartTrafficGenerator)
    /\ WF_vars(GenSteps)
    /\ WF_vars(ServeSteps)

\* ------------------------------------------------- handler specifications
HandlerInitWith(k, n) ==
    /\ allocHolder = Retained(k)
    /\ req = [r \in Slots |-> IdleReq]
    /\ nCalls = k
    /\ pending = n
    /\ proc = Serving
    /\ gen = GenInit
    /\ logs = <<>>
    /\ requestCount = 0
    /\ histogram = <<>>
    /\ EmailIdle
    /\ JavaIdle

AllocSteps(r) ==
    \/ AllocStart(r)
    \/ AllocCheck(r)
    \/ AllocEvictLoad(r)
    \/ AllocEvictStore(r)
    \/ AllocAppendLoad(r)
    \/ AllocAppendStore(r)
    \/ AllocWrite(r)
    \/ HandlerReturn(r)

SeqInit == HandlerInitWith(0, MaxSeqCalls)

SeqNext ==
    \/ Arrive(1, routeAlloc)
    \/ AllocSteps(1)

SeqSpec == SeqInit /\ [][SeqNext]_vars

\* The buffer is as earlier requests left it: empty, or within MaxConcCalls
\* blocks of full (from the lengths between, the requests sent reach neither
\* the bound nor an eviction, as from the empty buffer).
ConcInit ==
    \E k \in {0} \cup ((maxRetained - MaxConcCalls)..maxRetained):
        HandlerInitWith(k, MaxConcCalls)

ConcNext ==
    \E r \in Slots:
        \/ Arrive(r, routeAlloc)
        \/ AllocSteps(r)

ConcSpec == ConcInit /\ [][ConcNext]_vars

\* The buffer is as earlier requests left it: empty or full.
HandlerInit ==
    \E k \in {0, maxRetained}: HandlerInitWith(k, MaxHandlerCalls)

HandlerNext ==
    \E r \in Slots:
        \/ \E route \in {routeFast, routeSlow, routeAlloc}: Arrive(r, route)
        \/ HelloSleep(r)
        \/ HelloFail(r)
        \/ HelloOk(r)
        \/ SlowStart(r)
        \/ SlowWork(r)
        \/ SlowWrite(r)
        \/ AllocSteps(r)

HandlerSpec == HandlerInit /\ [][HandlerNext]_vars

\* ------------------------------------------------------ both kinds of run
\* The requests of a run come from the clients of a handler specification,
\* and the generator is left out of it.
ClientRun == gen.pc = "not_started" /\ (pending > 0 \/ nCalls > 0)

\* The steps of HandlerSpec for the two routes whose handlers open a scope.
ScopedNext ==
    \E r \in Slots:
        \/ \E route \in {routeSlow, routeAlloc}: Arrive(r, route)
        \/ SlowStart(r)
        \/ SlowWork(r)
        \/ SlowWrite(r)
        \/ AllocSteps(r)

\* A run of ScopeSpec is a run of Spec or a run of clients sending requests
\* to the two routes.
ScopeInit == Init \/ HandlerInit

ScopeNext ==
    \/ ClientRun /\ ScopedNext
    \/ ~ClientRun /\ Next

ScopeSpec == ScopeInit /\ [][ScopeNext]_vars

\* --------------------------------------------- checkEmail and FaultController
\* The server with no request in flight.
Quiet == HandlerInitWith(0, 0)

EmailNext ==
    \E c \in Callers:
        \/ CheckEmailEnter(c)
        \/ CheckEmailIter(c)
        \/ CheckEmailReturn(c)

EmailSpec == Quiet /\ [][EmailNext]_vars

JavaNext ==
    \/ \E mb \in MbValues, hold \in BOOLEAN, clear \in BOOLEAN:
           JavaArrive(mb, hold, clear)
    \/ JavaClear
    \/ JavaNewNegative
    \/ JavaNewOutOfMemory
    \/ JavaNew
    \/ JavaHold
    \/ JavaRespond

JavaSpec == Quiet /\ [][JavaNext]_vars

\* ------------------------------------------------------------------ claims
Min(a, b) == IF a < b THEN a ELSE b

Emissions == {"log", "counter", "histogram"}

\* allocateMemoryBurst has returned in slot r.
BurstReturned(r) == req[r].pc \in {"idle", "alloc_write", "return", "done"}

\* C1: with /alloc requests served one after the other from the empty
\* buffer, allocHolder holds at most maxRetained blocks in every state,
\* the state between the eviction and the append included.
C1_LenAtMostMaxRetained == Len(allocHolder) <= maxRetained

\* C1 witness: a call has evicted the oldest block and not yet appended.
C1_BetweenEvictAndAppend ==
    /\ req[1].pc = "make"
    /\ nCalls > maxRetained
    /\ Len(allocHolder) = maxRetained - 1

\* C2: after k /alloc requests served one after the other from the empty
\* buffer, allocHolder holds exactly the last min(k, maxRetained) blocks
\* appended, in the order appended; after maxRetained + 1 calls it has
\* length maxRetained without the first block, and after 25 calls it
\* holds blocks 6..25.
C2_FifoEviction ==
    BurstReturned(1) =>
        LET k == nCalls
            n == Min(k, maxRetained)
        IN /\ allocHolder = [i \in 1..n |-> Batch(k - n + i)]
           /\ k = maxRetained + 1 =>
                 /\ Len(allocHolder) = maxRetained
                 /\ Batch(1) \notin Range(allocHolder)
           /\ k = 25 => allocHolder = [i \in 1..maxRetained |-> Batch(i + 5)]

\* C2 witness: the 25th call has returned and the oldest block is block 6.
C2_After25Calls ==
    /\ req[1].pc = "done"
    /\ nCalls = 25
    /\ Len(allocHolder) = maxRetained
    /\ allocHolder[1] = Batch(6)
    /\ allocHolder[maxRetained] = Batch(25)

\* C3: with /alloc requests served at once, their steps interleaved in any
\* order, allocHolder never holds more than maxRetained blocks.
C3_ConcurrentLenAtMostMaxRetained == ~(Len(allocHolder) > maxRetained)

\* C4: nothing excludes one /alloc request from another between its load
\* of allocHolder and its store: every store of append installs the slice
\* the request loaded with its own block appended, whatever other requests
\* stored since the load, and every store of the eviction installs the tail
\* of the slice the request loaded.
C4_WriteBackFromSnapshot ==
    [][\A r \in Slots:
          /\ (req[r].pc = "append_store" /\ req'[r].pc # "append_store") =>
                allocHolder' = Append(req[r].snap, Batch(req[r].id))
          /\ (req[r].pc = "evict_store" /\ req'[r].pc # "evict_store") =>
                allocHolder' = Tail(req[r].snap)]_vars

\* C4 witness: every request has finished, no block was ever evicted (fewer
\* than maxRetained blocks were ever appended), and the block one finished
\* request appended is not in the buffer: the update was lost to a request
\* that had loaded the buffer before it.
C4_LostUpdate ==
    /\ \A r \in Slots: req[r].pc = "done"
    /\ nCalls < maxRetained
    /\ \E r \in Slots: Batch(req[r].id) \notin Range(allocHolder)

\* C5: the generator never returns and never stops the process, whatever
\* client.Get returned; and an iteration whose client.Get failed is followed
\* by the start of the next iteration, unless the server goroutine's
\* log.Fatal ends the process first.
C5_GeneratorNeverStops ==
    /\ [](gen.pc # "returned" /\ proc.exit # "startTrafficGenerator")
    /\ \A i \in 1..(MaxIter - 1):
          (gen.iter = i /\ gen.pc = "log_err")
              ~> \/ gen.iter = i + 1 /\ gen.scope = "open"
                 \/ proc.exit = "ListenAndServe"

\* C5 witness: the first iteration logged a transport error and the second
\* iteration has opened its scope.
C5_IterationAfterError ==
    /\ gen.iter = 2
    /\ gen.scope = "open"
    /\ Len(logs) = 1
    /\ logs[1].severity = "ERROR"
    /\ Alive

\* C6, as claimed: in every generator iteration the scope is closed before
\* the iteration's log record is emitted and before its samples are
\* recorded.
C6_SpanEndBeforeEmission ==
    \A i \in DOMAIN gen.events:
        gen.events[i] \in Emissions =>
            \E j \in 1..(i - 1): gen.events[j] = "span_end"

\* C6, amended: in every generator iteration the events occur in the order
\* span-start, workload (checkEmail, then the GET), metric and log
\* emission, span-end: the scope is open when the log record is emitted and
\* the samples are recorded, and it is closed after them.
C6_EmissionInsideScope ==
    LET ev == gen.events
    IN /\ \A i \in DOMAIN ev: (ev[i] = "span_start") <=> (i = 1)
       /\ \A i \in DOMAIN ev: (ev[i] = "workload") <=> (i = 2)
       /\ \A i \in DOMAIN ev: (ev[i] = "get") <=> (i = 3)
       /\ \A i \in DOMAIN ev: ev[i] = "span_end" => i = Len(ev)
       /\ \A i \in DOMAIN ev:
             ev[i] \in Emissions => /\ i > 3
                                    /\ gen.scope = "open" \/ i < Len(ev)
       /\ (gen.scope = "ended") <=> (ev # <<>> /\ ev[Len(ev)] = "span_end")
       /\ gen.pc = "sleep" => "log" \in Range(ev)

\* C6 witness: an iteration has emitted its samples and its log record and
\* then closed its scope.
C6_EmittedThenEnded ==
    /\ gen.pc = "sleep"
    /\ gen.events = <<"span_start", "workload", "get", "counter",
                      "histogram", "log", "span_end">>

\* C7: a process that terminates after initProvider and initMetrics
\* succeeded has invoked the shutdown function exactly once, and no run
\* invokes it more than once.
C7_ShutdownOnceOnExit ==
    /\ proc.shutdownCalls <= 1
    /\ (proc.exit # "none" /\ proc.shutdown = "set" /\ proc.metrics) =>
          proc.shutdownCalls = 1

\* C9: every INFO record the generator emits has route=/slow, status=200
\* and the hex trace and span identifiers of the scope its own iteration
\* opened in its body, none of an earlier iteration's scope, and the
\* attributes trace_id and span_id equal the body's.
C9_OkRecordCarriesOwnScope ==
    \A i \in DOMAIN logs:
        logs[i].severity = "INFO" =>
            LET rec == logs[i]
                own == gen.past[rec.iter]
            IN /\ rec.body.tag = "[OK]"
               /\ rec.body.route = "/slow"
               /\ rec.body.status = "200"
               /\ rec.body.trace_id = HexString(own.trace, 16)
               /\ rec.body.span_id = HexString(own.span, 8)
               /\ rec.attrs.trace_id = rec.body.trace_id
               /\ rec.attrs.span_id = rec.body.span_id
               /\ \A j \in 1..(rec.iter - 1):
                     /\ rec.body.trace_id # HexString(gen.past[j].trace, 16)
                     /\ rec.body.span_id # HexString(gen.past[j].span, 8)

\* C9 witness: the second iteration has emitted an INFO record.
C9_SecondIterationLogged ==
    \E i \in DOMAIN logs: logs[i].severity = "INFO" /\ logs[i].iter = 2

\* C10: a request runs its workload once and writes one response: /slow
\* ends with 200 and "Slow endpoint finished", /alloc with 200 and "Alloc
\* endpoint finished", /hello with 200 and "Hello World" or with 500 and no
\* body.
C10_OneWorkloadOneResponse ==
    \A r \in Slots:
        /\ req[r].writes <= 1
        /\ req[r].work <= 1
        /\ req[r].pc = "done" =>
              /\ req[r].writes = 1
              /\ req[r].work = 1
              /\ req[r].route = routeSlow =>
                    /\ req[r].resp.status = 200
                    /\ req[r].resp.body = <<"Slow endpoint finished">>
                    /\ req[r].checks = 50
              /\ req[r].route = routeAlloc =>
                    /\ req[r].resp.status = 200
                    /\ req[r].resp.body = <<"Alloc endpoint finished">>
              /\ req[r].route = routeFast =>
                    \/ /\ req[r].resp.status = 200
                       /\ req[r].resp.body = <<"Hello World">>
                    \/ /\ req[r].resp.status = 500
                       /\ req[r].resp.body = <<>>

\* C10 witness: a /hello request has ended with the injected 500 and a
\* request to another route has ended.
C10_HelloFailedOtherDone ==
    \E r, q \in Slots:
        /\ req[r].pc = "done"
        /\ req[r].route = routeFast
        /\ req[r].resp.status = 500
        /\ req[q].pc = "done"
        /\ req[q].route \in {routeSlow, routeAlloc}

\* C11: checkEmail is deterministic and free of side effects.  Every call
\* makes exactly 5000 match attempts of the pattern against the sample (one
\* per iteration, 5000 when it returns), every call of every caller returns
\* the same boolean, and a step of a call changes nothing but the locals of
\* that call: the retention buffer, the counter, the histogram, the pattern
\* and the sample stay as they are, and so do the locals of a call that
\* another goroutine has in progress at the same time.
C11_CheckEmailPure ==
    /\ [](\A c \in Callers:
            /\ emailCalls[c].attempts = emailCalls[c].i
            /\ emailCalls[c].i <= checkEmailLoops
            /\ emailCalls[c].results # <<>> =>
                   emailCalls[c].pc = "loop"
                   \/ emailCalls[c].attempts = checkEmailLoops
            /\ \A d \in Callers:
                   \A m \in DOMAIN emailCalls[c].results,
                      n \in DOMAIN emailCalls[d].results:
                       emailCalls[c].results[m] = emailCalls[d].results[n])
    /\ [][/\ UNCHANGED <<allocHolder, requestCount, histogram, emailRegexp,
                         slowEmailSample>>
          /\ \A c \in Callers:
                 emailCalls'[c] # emailCalls[c] =>
                     \A d \in Callers \ {c}: emailCalls'[d] = emailCalls[d]]_vars

\* The generator's call has returned from its 5000 attempts while the call
\* of the /slow goroutine, begun meanwhile, is in its loop.
C11_CallReturnsBesideAnother ==
    /\ emailCalls["generator"].pc = "idle"
    /\ emailCalls["generator"].results = <<FALSE>>
    /\ emailCalls["generator"].attempts = checkEmailLoops
    /\ emailCalls["slowHandler"].pc = "loop"
    /\ emailCalls["slowHandler"].attempts = MaxOverlap

\* C12: in the Java FaultController the bytes held never exceed the cap.
\* After any /alloc requests, with any mb, hold and clear, allocHolderBytes
\* is between 0 and ALLOC_HOLDER_MAX_BYTES and is the sum of the sizes of the
\* blocks in ALLOC_HOLDER, and a request whose block would take the total
\* over the cap holds nothing and reports 0 allocated bytes.
C12_HeldBytesWithinCap ==
    /\ allocHolderBytes \in 0..ALLOC_HOLDER_MAX_BYTES
    /\ allocHolderBytes = SumSeq(ALLOC_HOLDER)
    /\ /\ javaReq.pc \in {"respond", "done"}
       /\ javaReq.hold
       /\ javaReq.status # StatusInternalServerError
       /\ javaReq.before + javaReq.bytes > ALLOC_HOLDER_MAX_BYTES
       => ~javaReq.held /\ javaReq.actuallyAllocated = 0

Occurrences(s, x) == Cardinality({i \in DOMAIN s : s[i] = x})

\* C13: each generator iteration emits exactly one log record.  When the
\* emissions of an iteration are over: after a successful GET there is one
\* record of the iteration, of severity INFO, one counter increment and one
\* duration observation, and no error recorded on the scope; after a
\* transport failure there is one record, of severity ERROR, the error is
\* recorded on the scope once, and there is no counter increment and no
\* observation.  No iteration ever has two records, so none has both an
\* INFO and an ERROR record, and over the run the counter and the number of
\* observations equal the number of INFO records.
C13_OneRecordPerIteration ==
    LET of(k) == {i \in DOMAIN logs : logs[i].iter = k}
        info == {i \in DOMAIN logs : logs[i].severity = "INFO"}
        mine == of(gen.iter)
    IN  /\ \A k \in 1..MaxIter: Cardinality(of(k)) <= 1
        /\ requestCount <= Cardinality(info) + 1
        /\ Len(histogram) <= requestCount
        /\ gen.iter >= 1 /\ gen.pc \in {"end", "sleep", "start"} =>
              /\ Cardinality(mine) = 1
              /\ Len(logs) = gen.iter
              /\ Occurrences(gen.events, "log") = 1
              /\ requestCount = Cardinality(info)
              /\ Len(histogram) = requestCount
              /\ IF gen.err = "nil"
                 THEN /\ \A i \in mine: logs[i].severity = "INFO"
                      /\ Occurrences(gen.events, "counter") = 1
                      /\ Occurrences(gen.events, "histogram") = 1
                      /\ gen.recorded = <<>>
                 ELSE /\ \A i \in mine: logs[i].severity = "ERROR"
                      /\ gen.recorded = <<gen.err>>
                      /\ Occurrences(gen.events, "counter") = 0
                      /\ Occurrences(gen.events, "histogram") = 0

\* An iteration that failed and one that succeeded have both emitted.
C13_ErrorThenInfoEmitted ==
    /\ gen.iter = 2
    /\ gen.pc = "sleep"
    /\ logs[1].severity = "ERROR"
    /\ logs[2].severity = "INFO"
    /\ requestCount = 1

\* C14: every scope is closed exactly once.  The scope of slowHandler and of
\* allocHandler is open while the handler runs and has been ended once when
\* the handler has returned; the scope of a generator iteration has been
\* ended once when the iteration sleeps, on the success and on the failure
\* branch; a new iteration opens its scope only when no generator scope is
\* open, so that at most one is open at any time.
C14_ScopesClosedOnce ==
    /\ [](/\ \A r \in Slots:
               /\ req[r].ends <= 1
               /\ req[r].route \in {routeSlow, routeAlloc} =>
                     /\ req[r].pc = "done" =>
                            req[r].span = "ended" /\ req[r].ends = 1
                     /\ req[r].pc \notin {"accepted", "done"} =>
                            req[r].span = "open" /\ req[r].ends = 0
          /\ Cardinality(gen.open) <= 1
          /\ gen.ends <= 1
          /\ gen.scope = "open" <=> gen.open = {gen.span}
          /\ gen.iter >= 1 /\ gen.pc \in {"sleep", "start"} =>
                 gen.scope = "ended" /\ gen.ends = 1 /\ gen.open = {})
    /\ [][gen'.iter # gen.iter =>
              gen.open = {} /\ gen'.open = {gen'.span}]_vars

\* The second iteration has its scope open, the first having failed and
\* closed its own, and the /slow request of the second has returned.
C14_SecondScopeAfterFirstClosed ==
    /\ gen.iter = 2
    /\ gen.open = {gen.span}
    /\ Len(logs) = 1
    /\ logs[1].severity = "ERROR"
    /\ req[1].pc = "done"
    /\ req[1].span = "ended"

\* C15: start-up failures are handled by kind.  When initProvider or
\* initMetrics has failed the process has exited with the server never
\* started and the generator never run: no request accepted, no iteration,
\* no record.  The step of startPyroscope leaves the process running and
\* goes on to initMetrics whether pyroscope started or failed.
C15_StartupFailuresByKind ==
    /\ [](proc.exit \in {"failed to init OTel", "failed to init metrics"} =>
             /\ proc.srv = "none"
             /\ gen.pc = "not_started"
             /\ gen.iter = 0
             /\ nCalls = 0
             /\ logs = <<>>)
    /\ [](proc.pc = "initProvider" /\ proc.exit # "none" =>
             proc.exit = "failed to init OTel")
    /\ [](proc.pc = "initMetrics" /\ proc.exit # "none" =>
             proc.exit = "failed to init metrics")
    /\ [][proc.pc = "startPyroscope" /\ proc' # proc =>
              proc'.exit = "none" /\ proc'.pc = "initMetrics"]_vars

\* Pyroscope failed to start, and the process serves a request of the
\* generator and emits its record.
C15_ServingAfterPyroscopeFailed ==
    /\ proc.pyroscope = "failed"
    /\ proc.exit = "none"
    /\ proc.srv = "listening"
    /\ gen.iter >= 1
    /\ req[1].pc = "done"
    /\ \E i \in DOMAIN logs: logs[i].severity = "INFO"
====
